---- MODULE Spec2Model ----
(***************************************************************************)
(* A model of src/pdf_processor.py.                                        *)
(*                                                                         *)
(*   Spec     one call of extract_text_from_pdf: the page loop, the        *)
(*            digital / table / OCR strategies of each page, the SIGALRM   *)
(*            watchdog, the final assembly and the three return paths.     *)
(*   SanSpec  clean_text_for_api applied to a bounded string, then applied *)
(*            to its own output.                                           *)
(*                                                                         *)
(* Strings of the page loop are sequences of tokens (one token per item    *)
(* the code appends to page_content); strings of the sanitizer are         *)
(* sequences of code points.                                               *)
(***************************************************************************)
EXTENDS Integers, Sequences, FiniteSets, TLC

VARIABLES
    pc,                 \* position in extract_text_from_pdf
    platform,           \* platform.system() is "Windows" or not
    opened,             \* pdfplumber.open and len(pdf.pages) succeeded
    total_pages,        \* len(pdf.pages)
    page_num,           \* the loop variable of line 141
    alarm,              \* seconds the pending SIGALRM was armed with, 0 = none
    text,               \* the local `text` of the digital step
    ocr_text,           \* the local `ocr_text` of the OCR step
    page_content,       \* the list page_content of the current page
    extracted_content,  \* the list extracted_content (one entry per page)
    result,             \* the string the call returned
    outcome,            \* how the call ended
    digEnd,             \* per page: how the digital attempt ended
    digLen,             \* per page: len(text.strip()) as line 176 saw it
    rasterCalls,        \* per page: calls of page.to_image
    ocrEnd,             \* per page: how the OCR step ended
    tabEnd,             \* per page: how page.extract_tables ended
    sig_handler,        \* the handler installed for SIGALRM (process-wide)
    exc_msg,            \* str(e) of the exception on its way to a handler
    entry,              \* the process-wide signal state when the page began
    s_pc,               \* sanitizer run: position
    s_in,               \* sanitizer run: the input string
    s_out,              \* sanitizer run: clean_text_for_api(s_in)
    s_out2,             \* sanitizer run: clean_text_for_api(s_out)
    s_type,             \* sanitizer run: the type of the argument, s_in being its str()
    v_pc,               \* validation run: position
    v_text,             \* validation run: the candidate text
    v_out,              \* validation run: the verdict
    u_pc,               \* upload_files: position
    current_user,       \* upload_files: current_user.id of the request
    disk,               \* the uploaded files present in the upload folder
    review,             \* the committed row of the review, or NoReview
    texts,              \* project_spec_text and vendor_submittal_text
    analyzed,           \* the arguments analyze_compliance was called with
    analysis_result,    \* what analyze_compliance returned
    propagating,        \* an exception left the handler of line 182
    saved_both,         \* both files were saved (line 70 returned)
    was_completed,      \* a commit stored status 'completed' (line 165)
    resp,               \* the last response of view_results / download_report
    a_pc,               \* analyze_compliance: position
    a_in,               \* analyze_compliance: the two arguments
    a_system,           \* analyze_compliance: clean_system_prompt
    a_user              \* analyze_compliance: clean_user_message

pipeVars == <<pc, platform, opened, total_pages, page_num, alarm, text, ocr_text,
              page_content, extracted_content, result, outcome,
              digEnd, digLen, rasterCalls, ocrEnd,
              tabEnd, sig_handler, exc_msg, entry>>
sanVars == <<s_pc, s_in, s_out, s_out2, s_type>>
valVars == <<v_pc, v_text, v_out>>
routeVars == <<u_pc, current_user, disk, review, texts, analyzed, analysis_result,
               propagating, saved_both, was_completed, resp>>
anVars == <<a_pc, a_in, a_system, a_user>>
webVars == <<routeVars, anVars>>
vars == <<pipeVars, sanVars, valVars, webVars, webVars>>

(***************************************************************************)
(* Bounds of the model and constants of the program.                       *)
(***************************************************************************)
MaxPages == 2
MinTextLen == 50
DigitalTimeout == 15
OcrTimeout == 30

Pages == 1..MaxPages

(***************************************************************************)
(* clean_text_for_api (lines 17-121) on strings of code points.            *)
(***************************************************************************)
MaxLen == 4

\* the code points the bounded inputs are built from: a letter, space, the
\* controls \n \t \r \v \f and DEL, an accented letter, the degree sign, the
\* paragraph separator, a box-drawing character
Alphabet == {97, 32, 10, 9, 13, 11, 12, 127, 233, 176, 8233, 9474}

Strings == UNION {[1..n -> Alphabet] : n \in 0..MaxLen}

RECURSIVE FlatMap(_, _)
\* the concatenation of f(c) over the characters c of s
FlatMap(f(_), s) == IF s = <<>> THEN <<>> ELSE f(Head(s)) \o FlatMap(f, Tail(s))

\* line 29: unicodedata.normalize('NFKD', text), character by character (the
\* decompositions of the code points named here; any other is kept)
NFKD(c) ==
    CASE c = 160 -> <<32>>   \* U+00A0 no-break space
      [] c = 170 -> <<97>>   \* U+00AA feminine ordinal indicator
      [] c = 178 -> <<50>>   \* U+00B2 superscript two
      [] c = 179 -> <<51>>   \* U+00B3 superscript three
      [] c = 181 -> <<956>>   \* U+00B5 micro sign
      [] c = 186 -> <<111>>   \* U+00BA masculine ordinal indicator
      [] c = 188 -> <<49, 8260, 52>>   \* U+00BC vulgar fraction one quarter
      [] c = 189 -> <<49, 8260, 50>>   \* U+00BD vulgar fraction one half
      [] c = 190 -> <<51, 8260, 52>>   \* U+00BE vulgar fraction three quarters
      [] c = 233 -> <<101, 769>>   \* U+00E9 latin small letter e with acute
      [] c = 252 -> <<117, 776>>   \* U+00FC latin small letter u with diaeresis
      [] c = 8209 -> <<8208>>   \* U+2011 non-breaking hyphen
      [] c = 8230 -> <<46, 46, 46>>   \* U+2026 horizontal ellipsis
      [] c = 8243 -> <<8242, 8242>>   \* U+2033 double prime
      [] c = 8244 -> <<8242, 8242, 8242>>   \* U+2034 triple prime
      [] c = 8482 -> <<84, 77>>   \* U+2122 trade mark sign
      [] c = 8800 -> <<61, 824>>   \* U+2260 not equal to
      [] OTHER -> <<c>>

\* lines 34-95: the replacement table
Replacement(c) ==
    CASE c = 8217 -> <<39>>   \* U+2019 Right single quotation mark
      [] c = 8216 -> <<39>>   \* U+2018 Left single quotation mark
      [] c = 8220 -> <<34>>   \* U+201C Left double quotation mark
      [] c = 8221 -> <<34>>   \* U+201D Right double quotation mark
      [] c = 8211 -> <<45>>   \* U+2013 En dash
      [] c = 8212 -> <<45, 45>>   \* U+2014 Em dash
      [] c = 8230 -> <<46, 46, 46>>   \* U+2026 Ellipsis
      [] c = 176 -> <<32, 100, 101, 103, 114, 101, 101, 115>>   \* U+00B0 Degree symbol
      [] c = 189 -> <<49, 47, 50>>   \* U+00BD Half
      [] c = 188 -> <<49, 47, 52>>   \* U+00BC Quarter
      [] c = 190 -> <<51, 47, 52>>   \* U+00BE Three quarters
      [] c = 178 -> <<94, 50>>   \* U+00B2 Superscript 2
      [] c = 179 -> <<94, 51>>   \* U+00B3 Superscript 3
      [] c = 8226 -> <<42>>   \* U+2022 Bullet
      [] c = 215 -> <<120>>   \* U+00D7 Multiplication
      [] c = 247 -> <<47>>   \* U+00F7 Division
      [] c = 956 -> <<109, 105, 99, 114, 111>>   \* U+03BC Micro/mu
      [] c = 177 -> <<43, 47, 45>>   \* U+00B1 Plus-minus
      [] c = 8805 -> <<62, 61>>   \* U+2265 Greater than or equal
      [] c = 8804 -> <<60, 61>>   \* U+2264 Less than or equal
      [] c = 8800 -> <<33, 61>>   \* U+2260 Not equal
      [] c = 8776 -> <<126, 61>>   \* U+2248 Approximately equal
      [] c = 8730 -> <<115, 113, 114, 116>>   \* U+221A Square root
      [] c = 8734 -> <<105, 110, 102, 105, 110, 105, 116, 121>>   \* U+221E Infinity
      [] c = 960 -> <<112, 105>>   \* U+03C0 Pi
      [] c = 945 -> <<97, 108, 112, 104, 97>>   \* U+03B1 Alpha
      [] c = 946 -> <<98, 101, 116, 97>>   \* U+03B2 Beta
      [] c = 947 -> <<103, 97, 109, 109, 97>>   \* U+03B3 Gamma
      [] c = 948 -> <<100, 101, 108, 116, 97>>   \* U+03B4 Delta
      [] c = 937 -> <<79, 109, 101, 103, 97>>   \* U+03A9 Omega
      [] c = 169 -> <<40, 99, 41>>   \* U+00A9 Copyright
      [] c = 174 -> <<40, 82, 41>>   \* U+00AE Registered
      [] c = 8482 -> <<40, 84, 77, 41>>   \* U+2122 Trademark
      [] c = 167 -> <<83, 101, 99, 116, 105, 111, 110, 32>>   \* U+00A7 Section sign
      [] c = 8224 -> <<43>>   \* U+2020 Dagger
      [] c = 8225 -> <<43, 43>>   \* U+2021 Double dagger
      [] c = 182 -> <<91, 80, 93>>   \* U+00B6 Pilcrow (paragraph sign)
      [] c = 8240 -> <<32, 112, 101, 114, 32, 116, 104, 111, 117, 115, 97, 110, 100>>   \* U+2030 Per mille
      [] c = 186 -> <<32, 100, 101, 103, 114, 101, 101, 115>>   \* U+00BA Masculine ordinal
      [] c = 170 -> <<97>>   \* U+00AA Feminine ordinal
      [] c = 8242 -> <<39>>   \* U+2032 Prime
      [] c = 8243 -> <<34>>   \* U+2033 Double prime
      [] c = 8244 -> <<39, 39, 39>>   \* U+2034 Triple prime
      [] c = 181 -> <<109, 105, 99, 114, 111>>   \* U+00B5 Micro sign
      [] c = 160 -> <<32>>   \* U+00A0 Non-breaking space
      [] c = 65279 -> <<>>   \* U+FEFF Zero width no-break space (BOM)
      [] c = 8203 -> <<>>   \* U+200B Zero width space
      [] c = 8204 -> <<>>   \* U+200C Zero width non-joiner
      [] c = 8205 -> <<>>   \* U+200D Zero width joiner
      [] c = 8232 -> <<10>>   \* U+2028 Line separator
      [] c = 8233 -> <<10, 10>>   \* U+2029 Paragraph separator
      [] c = 9 -> <<32>>   \* U+0009 Tab
      [] c = 13 -> <<>>   \* U+000D Carriage return
      [] OTHER -> <<c>>


\* lines 98-99 left out
ApplyReplacementsSkipped(s) == s

\* lines 98-99: no replacement text holds a key of the table, so replacing key
\* after key is replacing every character by its entry
ApplyReplacements(s) == FlatMap(Replacement, s)

\* line 102
BoxChars == {9474, 9500, 9472, 9492, 9496, 9484, 9488, 9508, 9516, 9524, 9532,
             9581, 9582, 9583, 9584, 9585, 9586, 9587, 9479, 9478, 9482, 9483}

\* lines 103-104
RemoveBoxChars(s) == SelectSeq(s, LAMBDA c : c \notin BoxChars)

\* line 107: string.printable is digits, letters, punctuation and ' \t\n\r\x0b\x0c'
Printable == (32..126) \cup (9..13)

\* line 108: a character outside string.printable becomes a space
ToPrintable(c) == IF c \in Printable THEN <<c>> ELSE <<32>>
KeepPrintable(s) == FlatMap(ToPrintable, s)

\* line 111 left out: the controls of string.printable are kept
DropControlsOmitted(s) == s

\* line 111
DropControls(s) == SelectSeq(s, LAMBDA c : c >= 32 \/ c \in {10, 13, 9})

\* line 114: encode('ascii', errors='ignore')
AsciiOnly(s) == SelectSeq(s, LAMBDA c : c < 128)

\* \s of the re module on the characters that reach lines 117-121
IsSpace(c) == c \in {32, 9, 10, 11, 12, 13}

\* the length of the longest prefix of s made of characters of set S
RECURSIVE PrefixLen(_, _)
PrefixLen(s, S) ==
    IF s = <<>> \/ Head(s) \notin S THEN 0 ELSE 1 + PrefixLen(Tail(s), S)

Drop(s, n) == SubSeq(s, n + 1, Len(s))

\* line 117: re.sub(r'[ \t]+', ' ', text)
RECURSIVE CollapseSpaces(_)
CollapseSpaces(s) ==
    IF s = <<>> THEN <<>>
    ELSE IF Head(s) \in {32, 9}
         THEN <<32>> \o CollapseSpaces(Drop(s, PrefixLen(s, {32, 9})))
         ELSE <<Head(s)>> \o CollapseSpaces(Tail(s))

\* line 118: re.sub(r'\n\s*\n\s*\n+', '\n\n', text). A match starts at a
\* newline whose run of whitespace holds three newlines or more and, the
\* quantifiers being greedy, ends at the last newline of that run
RECURSIVE CollapseNewlines(_)
CollapseNewlines(s) ==
    IF s = <<>> THEN <<>>
    ELSE IF Head(s) = 10
         THEN LET run == PrefixLen(s, {32, 9, 10, 11, 12, 13})
                  nls == {i \in 1..run : s[i] = 10}
                  last == CHOOSE i \in nls : \A j \in nls : j <= i
              IN  IF Cardinality(nls) >= 3
                    THEN <<10, 10>> \o CollapseNewlines(Drop(s, last))
                    ELSE <<10>> \o CollapseNewlines(Tail(s))
         ELSE <<Head(s)>> \o CollapseNewlines(Tail(s))

\* line 119: re.sub(r'^\s+|\s+$', '', text, flags=re.MULTILINE), scanning s
\* from position i. `^\s+` takes the whole run of whitespace at a line start;
\* `\s+$` takes the run up to its last position that is followed by a newline
\* or by the end of the string
RECURSIVE TrimLinesFrom(_, _)
TrimLinesFrom(s, i) ==
    IF i > Len(s) THEN <<>>
    ELSE IF ~IsSpace(s[i]) THEN <<s[i]>> \o TrimLinesFrom(s, i + 1)
    ELSE LET run == PrefixLen(Drop(s, i - 1), {32, 9, 10, 11, 12, 13})
             atStart == i = 1 \/ s[i - 1] = 10
             ends == {k \in 1..run : i + k > Len(s) \/ s[i + k] = 10}
             k == CHOOSE x \in ends : \A y \in ends : y <= x
         IN  IF atStart THEN TrimLinesFrom(s, i + run)
             ELSE IF ends # {} THEN TrimLinesFrom(s, i + k)
             ELSE <<s[i]>> \o TrimLinesFrom(s, i + 1)

TrimLines(s) == TrimLinesFrom(s, 1)

\* line 121: text.strip()
RECURSIVE StripRight(_)
StripRight(s) ==
    IF s # <<>> /\ IsSpace(s[Len(s)]) THEN StripRight(SubSeq(s, 1, Len(s) - 1)) ELSE s

Strip(s) == StripRight(Drop(s, PrefixLen(s, {32, 9, 10, 11, 12, 13})))

\* lines 116-121
NormalizeWhitespace(s) == Strip(TrimLines(CollapseNewlines(CollapseSpaces(s))))

\* lines 106-114
AsciiFilter(s) == AsciiOnly(DropControls(KeepPrintable(s)))

\* lines 17-121 with the whitespace clean-up of lines 116-121 moved before
\* the replacements of lines 98-99
clean_text_replacing_last(s) ==
    IF s = <<>> THEN <<>>
    ELSE Strip(AsciiFilter(RemoveBoxChars(ApplyReplacements(
             NormalizeWhitespace(FlatMap(NFKD, s))))))

\* lines 17-121, for a string argument
clean_text_for_api(s) ==
    IF s = <<>> THEN <<>>
    ELSE NormalizeWhitespace(
             AsciiFilter(RemoveBoxChars(ApplyReplacements(FlatMap(NFKD, s)))))

\* the arguments that are not strings, each with its str(): 0, 7, False,
\* True and None
NonStrings == {[ty |-> "int", repr |-> <<48>>],
               [ty |-> "int", repr |-> <<55>>],
               [ty |-> "bool", repr |-> <<70, 97, 108, 115, 101>>],
               [ty |-> "bool", repr |-> <<84, 114, 117, 101>>],
               [ty |-> "NoneType", repr |-> <<78, 111, 110, 101>>]}

\* bool(text) for an argument of type ty whose str() is repr
Truthy(ty, repr) ==
    CASE ty = "str"  -> repr # <<>>
      [] ty = "int"  -> repr # <<48>>
      [] ty = "bool" -> repr = <<84, 114, 117, 101>>
      [] OTHER       -> FALSE

\* lines 17-121, for an argument of any type: line 23 tests the argument
\* itself, line 26 takes its str()
CleanValue(ty, repr) ==
    IF ~Truthy(ty, repr) THEN <<>> ELSE clean_text_for_api(repr)

(***************************************************************************)
(* Tokens: one per item appended to page_content / final_content.          *)
(* n carries the page number of a marker, or the length of a text; s is    *)
(* the text of the item, code point by code point, for the items built     *)
(* from an exception message.                                              *)
(***************************************************************************)
Tok(t, n) == [t |-> t, n |-> n, s |-> <<>>]
TokS(t, s) == [t |-> t, n |-> 0, s |-> s]

\* str(e) of the exceptions a library call may raise: "e" and "e" + U+00E9
ErrMsgs == {<<101>>, <<101, 233>>}

\* lines 155-156 and 218-219: the messages of the two timeout handlers
TextTimeoutMsg == <<84, 101, 120, 116, 32, 101, 120, 116, 114, 97, 99, 116, 105,
                    111, 110, 32, 116, 105, 109, 101, 100, 32, 111, 117, 116>>
OcrTimeoutMsg == <<79, 67, 82, 32, 116, 105, 109, 101, 100, 32, 111, 117, 116>>
HandlerMsg(h) == IF h = "text_handler" THEN TextTimeoutMsg ELSE OcrTimeoutMsg

\* str(e) of the NameError of lines 171 and 240
NameErrorMsg == <<110, 97, 109, 101, 32, 39, 101, 120, 116, 114, 97, 99, 116, 95,
                  119, 105, 116, 104, 95, 116, 105, 109, 101, 111, 117, 116, 39,
                  32, 105, 115, 32, 110, 111, 116, 32, 100, 101, 102, 105, 110,
                  101, 100>>

\* lines 260-263: "[OCR FAILED: " + the message without its non-ASCII + "]"
OcrFailedPrefix == <<91, 79, 67, 82, 32, 70, 65, 73, 76, 69, 68, 58, 32>>
OcrFailedMarker(msg) == TokS("OCR_FAILED", OcrFailedPrefix \o AsciiOnly(msg) \o <<93>>)

\* line 296: "[PDF EXTRACTION FAILED: " + the message + "]"
PdfFailedPrefix == <<91, 80, 68, 70, 32, 69, 88, 84, 82, 65, 67, 84, 73, 79, 78,
                     32, 70, 65, 73, 76, 69, 68, 58, 32>>
PdfFailedSentinel(msg) == TokS("PDF_FAILED", PdfFailedPrefix \o msg \o <<93>>)

\* lines 143-145: the three lines of the page-boundary marker
PageMarker(p) == Tok("PAGE", p)

\* the value None of `text`, and the texts page.extract_text may return:
\* len is len(text.strip()), clean is len(clean_text_for_api(text))
NoText == [len |-> -1, clean |-> 0]
DigLens == {0, MinTextLen - 1, MinTextLen, MinTextLen + 1}
DigTexts == {NoText} \cup {[len |-> l, clean |-> l] : l \in DigLens}
                     \cup {[len |-> MinTextLen + 1, clean |-> 0]}

\* what pytesseract.image_to_string may return: '', a string that
\* clean_text_for_api empties (such as '\x0c'), a readable string
OcrTexts == {"empty", "garbage", "readable"}

\* line 176: `text and len(text.strip()) > 50`
Sufficient(t) == t # NoText /\ t.len > MinTextLen

\* lines 178-179: the digital-text section
DigitalSection(t) == <<Tok("DIGITAL_HDR", 0), Tok("TEXT", t.clean)>>

\* what lines 183-194 may do: find no table, append a table, raise in
\* page.extract_tables, raise after the first lines of a table were appended
TableOutcomes == {"none", "some", "error", "error_mid"}

\* lines 184-194: the items appended for the tables of a page
TableItems(t) ==
    IF t = "some" THEN <<Tok("TABLES_HDR", 0), Tok("TABLE", 1), Tok("TABLE_ROW", 1)>>
    ELSE IF t = "error_mid" THEN <<Tok("TABLES_HDR", 0), Tok("TABLE", 1)>>
    ELSE <<>>

\* the handler of line 195 missing: the exception of the table code reaches
\* line 202 and the page falls back to OCR
AfterTablesUncaught(t) ==
    IF t \in {"error", "error_mid"} THEN "ocr_enter" ELSE "page_end"

\* lines 195-196: the handler only logs, control goes on to line 267
AfterTables(t) == "page_end"

\* lines 246-256 without the else branch of line 255: nothing is appended
\* when the OCR call gave no text
OcrItemsNoTimeoutMarker(o) ==
    IF o \in {"none", "empty"} THEN <<>>
    ELSE IF o = "garbage" THEN <<Tok("NO_READABLE", 0)>>
    ELSE <<Tok("OCR_TEXT", 1)>>

\* lines 246-256: the items appended once the OCR call has ended
OcrItems(o) ==
    IF o \in {"none", "empty"} THEN <<Tok("OCR_TIMED_OUT", 0)>>
    ELSE IF o = "garbage" THEN <<Tok("NO_READABLE", 0)>>
    ELSE <<Tok("OCR_TEXT", 1)>>

\* how lines 246-256 end for ocr_text o
OcrOutcome(o) ==
    IF o = "none" THEN "timeout"
    ELSE IF o = "readable" THEN "text" ELSE o

RECURSIVE Flatten(_)
\* '\n'.join over a list of joined lists
Flatten(ss) == IF ss = <<>> THEN <<>> ELSE Head(ss) \o Flatten(Tail(ss))

IsEmptyItem(k) == k.t = "TEXT" /\ k.n = 0

\* the texts an item may carry when page_content is joined, and what
\* clean_text_for_api makes of each of them
RaisedMsgs == ErrMsgs \cup {TextTimeoutMsg, OcrTimeoutMsg, NameErrorMsg}
ItemTexts == {<<>>} \cup {OcrFailedMarker(m).s : m \in RaisedMsgs}
CleanedText == {<<x, clean_text_for_api(x)>> : x \in ItemTexts}

\* clean_text_for_api on one item: an item that carries its text is cleaned
\* code point by code point, the others are ASCII and stay as they are
CleanTok(k) == [k EXCEPT !.s = (CHOOSE c \in CleanedText : c[1] = k.s)[2]]

\* clean_text_for_api on a joined list of items: an empty item leaves no
\* line behind (lines 116-121)
CleanTokens(toks) ==
    LET kept == SelectSeq(toks, LAMBDA k : ~IsEmptyItem(k))
    IN  [i \in 1..Len(kept) |-> CleanTok(kept[i])]

\* a budget of Budget items enforced on the cleaned result, a truncation
\* marker appended when it applies
Budget == 3
FinalContentTruncated(ec) ==
    LET full == CleanTokens(<<Tok("DOC_HDR", 0)>> \o Flatten(ec))
    IN  IF Len(full) > Budget
          THEN SubSeq(full, 1, Budget) \o <<Tok("TRUNCATED", 0)>>
          ELSE full

\* lines 270-282; line 284: "No truncation - send full content to API"
FinalContent(ec) == CleanTokens(<<Tok("DOC_HDR", 0)>> \o Flatten(ec))

\* lines 293-296, e being the exception caught at line 290
CriticalReturn(ec, msg) ==
    IF ec # <<>> THEN CleanTokens(Flatten(ec)) ELSE <<PdfFailedSentinel(msg)>>

(***************************************************************************)
(* Validation (specification, section 4.4): the repository's files hold no *)
(* validation function, so it is modelled from the specification. A text   *)
(* is a sequence of chunks: vocabulary terms in some letter case, a space, *)
(* a run of 23 characters holding no term.                                 *)
(***************************************************************************)
MaxWords == 5
MinValidLen == 50
MinTerms == 3

Vocabulary == {"specification", "dimensions", "pressure", "material", "rating"}
Chunks == {"specification", "dimensions", "pressure", "PRESSURE", "Material",
           "rating", " ", "filler"}

\* the number of characters of a chunk
ChunkLen(c) ==
    CASE c = "specification" -> 13
      [] c = "dimensions"    -> 10
      [] c \in {"pressure", "PRESSURE", "Material"} -> 8
      [] c = "rating"        -> 6
      [] c = " "             -> 1
      [] c = "filler"        -> 23

\* a chunk in lower case
LowerChunk(c) ==
    CASE c = "PRESSURE" -> "pressure"
      [] c = "Material" -> "material"
      [] OTHER          -> c

RECURSIVE CharLen(_)
CharLen(t) == IF t = <<>> THEN 0 ELSE ChunkLen(Head(t)) + CharLen(Tail(t))

RECURSIVE TrimLeft(_)
TrimLeft(t) == IF t # <<>> /\ Head(t) = " " THEN TrimLeft(Tail(t)) ELSE t

RECURSIVE TrimRight(_)
TrimRight(t) ==
    IF t # <<>> /\ t[Len(t)] = " " THEN TrimRight(SubSeq(t, 1, Len(t) - 1)) ELSE t

Trim(t) == TrimRight(TrimLeft(t))

\* the vocabulary terms present in t, whatever their letter case
TermsPresent(t) == {LowerChunk(t[i]) : i \in 1..Len(t)} \cap Vocabulary

\* the verdict with the occurrences of terms counted instead of the
\* distinct terms
ValidateCountingOccurrences(v) ==
    IF ~v.present THEN FALSE
    ELSE IF CharLen(Trim(v.chunks)) < MinValidLen THEN FALSE
    ELSE Cardinality({i \in 1..Len(v.chunks) :
                         LowerChunk(v.chunks[i]) \in Vocabulary}) >= MinTerms

\* the rule of section 4.4
Validate(v) ==
    IF ~v.present THEN FALSE
    ELSE IF CharLen(Trim(v.chunks)) < MinValidLen THEN FALSE
    ELSE Cardinality(TermsPresent(Trim(v.chunks))) >= MinTerms

AbsentText == [present |-> FALSE, chunks |-> <<>>]
Texts == {AbsentText} \cup
         {[present |-> TRUE, chunks |-> c] :
              c \in UNION {[1..n -> Chunks] : n \in 0..MaxWords}}

ValIdle ==
    /\ v_pc = "idle"
    /\ v_text = AbsentText
    /\ v_out = FALSE

(***************************************************************************)
(* routes.py and compliance_analyzer.py: the values of their variables     *)
(* while no request runs.                                                  *)
(***************************************************************************)
NoReview == [status |-> "none", user_id |-> "nobody", report_content |-> ""]
NoResponse == [kind |-> "none", user |-> "nobody", rid |-> 0,
               status |-> "none", content |-> ""]
NoArgument == [ty |-> "NoneType", repr |-> <<>>]

RouteIdle ==
    /\ u_pc = "off"
    /\ current_user = "nobody"
    /\ disk = {}
    /\ review = NoReview
    /\ texts = <<"none", "none">>
    /\ analyzed = <<>>
    /\ analysis_result = ""
    /\ propagating = FALSE
    /\ saved_both = FALSE
    /\ was_completed = FALSE
    /\ resp = NoResponse

AnIdle ==
    /\ a_pc = "off"
    /\ a_in = <<NoArgument, NoArgument>>
    /\ a_system = <<>>
    /\ a_user = <<>>

WebIdle == RouteIdle /\ AnIdle

(***************************************************************************)
(* Init: the state when extract_text_from_pdf is entered (line 132).       *)
(***************************************************************************)
SanIdle ==
    /\ s_pc = "idle"
    /\ s_in = <<>>
    /\ s_out = <<>>
    /\ s_out2 = <<>>
    /\ s_type = "str"

Init ==
    /\ pc = "open"
    /\ platform \in {"Unix", "Windows"}
    /\ opened = FALSE
    /\ total_pages = 0
    /\ page_num = 0
    /\ alarm = 0
    /\ text = NoText
    /\ ocr_text = "none"
    /\ page_content = <<>>
    /\ extracted_content = <<>>
    /\ result = <<>>
    /\ outcome = "running"
    /\ digEnd = [p \in Pages |-> "none"]
    /\ digLen = [p \in Pages |-> -2]
    /\ rasterCalls = [p \in Pages |-> 0]
    /\ ocrEnd = [p \in Pages |-> "none"]
    /\ tabEnd = [p \in Pages |-> "none"]
    /\ sig_handler = "SIG_DFL"
    /\ exc_msg = <<>>
    /\ entry = [handler |-> "SIG_DFL", alarm |-> 0]
    /\ SanIdle
    /\ ValIdle
    /\ WebIdle

hist == <<digEnd, digLen, rasterCalls, ocrEnd>>
extra == <<tabEnd, sig_handler, exc_msg, entry>>
frame == <<platform, opened, total_pages, result, outcome>>

(***************************************************************************)
(* lines 136-139: open the document and count its pages.                   *)
(***************************************************************************)
OpenOk ==
    /\ pc = "open"
    /\ \E n \in 0..MaxPages :
        /\ total_pages' = n
        /\ pc' = IF n = 0 THEN "assemble" ELSE "page_head"
    /\ opened' = TRUE
    /\ page_num' = 1
    /\ UNCHANGED <<platform, alarm, text, ocr_text, page_content,
                   extracted_content, result, outcome, hist, sanVars, valVars, webVars, extra>>

\* pdfplumber.open (or len(pdf.pages)) raises: control goes to line 290
OpenFails ==
    /\ pc = "open"
    /\ \E m \in ErrMsgs : exc_msg' = m
    /\ pc' = "critical"
    /\ UNCHANGED <<platform, opened, total_pages, page_num, alarm, text, ocr_text,
                   page_content, extracted_content, result, outcome, hist, sanVars, valVars, webVars,
                   tabEnd, sig_handler, entry>>

(***************************************************************************)
(* lines 141-145: start of a page.                                         *)
(***************************************************************************)
PageHead ==
    /\ pc = "page_head"
    /\ page_content' = <<PageMarker(page_num)>>
    /\ entry' = [handler |-> sig_handler, alarm |-> alarm]
    /\ pc' = "dig_arm"
    /\ UNCHANGED <<frame, page_num, alarm, text, ocr_text, extracted_content,
                   hist, sanVars, valVars, webVars, tabEnd, sig_handler, exc_msg>>

(***************************************************************************)
(* Step 1, lines 148-175: the digital attempt.                             *)
(***************************************************************************)
\* lines 149-159: install the handler and arm the alarm (replacing a pending one)
DigArmUnix ==
    /\ pc = "dig_arm"
    /\ platform = "Unix"
    /\ text' = NoText
    /\ sig_handler' = "text_handler"
    /\ alarm' = DigitalTimeout
    /\ pc' = "dig_call"
    /\ UNCHANGED <<frame, page_num, ocr_text, page_content, extracted_content,
                   hist, sanVars, valVars, webVars, tabEnd, exc_msg, entry>>

\* lines 168-171: extract_with_timeout is defined nowhere in the module, so the
\* call raises NameError before page.extract_text runs; line 202 catches it
DigArmWindows ==
    /\ pc = "dig_arm"
    /\ platform = "Windows"
    /\ text' = NoText
    /\ digEnd' = [digEnd EXCEPT ![page_num] = "error"]
    /\ pc' = "ocr_enter"
    /\ UNCHANGED <<frame, page_num, alarm, ocr_text, page_content,
                   extracted_content, digLen, rasterCalls, ocrEnd, sanVars, valVars, webVars, extra>>

\* line 162: page.extract_text returns
DigReturns ==
    /\ pc = "dig_call"
    /\ \E t \in DigTexts : text' = t
    /\ pc' = "dig_ret"
    /\ UNCHANGED <<frame, page_num, alarm, ocr_text, page_content,
                   extracted_content, hist, sanVars, valVars, webVars, extra>>

\* line 162: page.extract_text raises something other than TimeoutError; the
\* handler of line 164 does not match, line 202 does, and the alarm stays armed
DigRaises ==
    /\ pc = "dig_call"
    /\ digEnd' = [digEnd EXCEPT ![page_num] = "error"]
    /\ pc' = "ocr_enter"
    /\ UNCHANGED <<frame, page_num, alarm, text, ocr_text, page_content,
                   extracted_content, digLen, rasterCalls, ocrEnd, sanVars, valVars, webVars, extra>>

\* line 163: signal.alarm(0)
DigCancel ==
    /\ pc = "dig_ret"
    /\ alarm' = 0
    /\ digEnd' = [digEnd EXCEPT ![page_num] = "returned"]
    /\ pc' = "dig_check"
    /\ UNCHANGED <<frame, page_num, text, ocr_text, page_content,
                   extracted_content, digLen, rasterCalls, ocrEnd, sanVars, valVars, webVars, extra>>

\* the alarm fires inside the try of line 154, during the call or between its
\* return and line 163: lines 164-167
DigTimeout ==
    /\ pc \in {"dig_call", "dig_ret", "dig_hung"}
    /\ alarm # 0
    /\ alarm' = 0
    /\ text' = NoText
    /\ digEnd' = [digEnd EXCEPT ![page_num] = "timeout"]
    /\ pc' = "dig_check"
    /\ UNCHANGED <<frame, page_num, ocr_text, page_content, extracted_content,
                   digLen, rasterCalls, ocrEnd, sanVars, valVars, webVars, extra>>

\* lines 176-179 when the text is sufficient, else line 200 (ValueError -> 202)
DigCheck ==
    /\ pc = "dig_check"
    /\ digLen' = [digLen EXCEPT ![page_num] = text.len]
    /\ IF Sufficient(text)
         THEN /\ page_content' = page_content \o DigitalSection(text)
              /\ pc' = "tables"
         ELSE /\ page_content' = page_content
              /\ pc' = "ocr_enter"
    /\ UNCHANGED <<frame, page_num, alarm, text, ocr_text, extracted_content,
                   digEnd, rasterCalls, ocrEnd, sanVars, valVars, webVars, extra>>

\* lines 182-196: page.extract_tables returns (tables or none) or raises; the
\* except of line 195 only logs
Tables ==
    /\ pc = "tables"
    /\ \E t \in TableOutcomes :
        /\ page_content' = page_content \o TableItems(t)
        /\ tabEnd' = [tabEnd EXCEPT ![page_num] = t]
        /\ pc' = AfterTables(t)
    /\ UNCHANGED <<frame, page_num, alarm, text, ocr_text, extracted_content,
                   hist, sanVars, valVars, webVars, sig_handler, exc_msg, entry>>

(***************************************************************************)
(* A library call that never returns on its own: page.extract_text (line   *)
(* 162), page.extract_tables (line 183), page.to_image (line 209) and      *)
(* pytesseract.image_to_string (line 226). Only a SIGALRM ends such a call.*)
(***************************************************************************)
BlockingPcs == {"dig_call", "tables", "raster", "ocr_call"}

HungPc(p) ==
    CASE p = "dig_call" -> "dig_hung"
      [] p = "tables"   -> "tables_hung"
      [] p = "raster"   -> "raster_hung"
      [] p = "ocr_call" -> "ocr_hung"

Hangs ==
    /\ pc \in BlockingPcs
    /\ pc' = HungPc(pc)
    /\ rasterCalls' = IF pc = "raster"
                        THEN [rasterCalls EXCEPT ![page_num] = @ + 1]
                        ELSE rasterCalls
    /\ UNCHANGED <<frame, page_num, alarm, text, ocr_text, page_content,
                   extracted_content, digEnd, digLen, ocrEnd, sanVars, valVars, webVars, extra>>

(***************************************************************************)
(* Step 2, lines 202-265: the OCR fallback.                                *)
(***************************************************************************)
\* lines 202-205: the handler of the page's try; nothing guards these lines
OcrEnter ==
    /\ pc = "ocr_enter"
    /\ page_content' = Append(page_content, Tok("OCR_START", page_num))
    /\ pc' = "raster"
    /\ UNCHANGED <<frame, page_num, alarm, text, ocr_text, extracted_content,
                   hist, sanVars, valVars, webVars, extra>>

\* lines 209-210: page.to_image returns
RasterOk ==
    /\ pc = "raster"
    /\ rasterCalls' = [rasterCalls EXCEPT ![page_num] = @ + 1]
    /\ pc' = "ocr_arm"
    /\ UNCHANGED <<frame, page_num, alarm, text, ocr_text, page_content,
                   extracted_content, digEnd, digLen, ocrEnd, sanVars, valVars, webVars, extra>>

\* lines 209-210: page.to_image raises, or a pending alarm fires during it
\* (TimeoutError is an Exception): line 258 catches both
RasterFails ==
    /\ pc \in {"raster", "raster_hung"}
    /\ \E byAlarm \in BOOLEAN :
        /\ byAlarm => alarm # 0
        /\ pc = "raster_hung" => byAlarm
        /\ alarm' = IF byAlarm THEN 0 ELSE alarm
        /\ ocrEnd' = [ocrEnd EXCEPT ![page_num] =
                          IF byAlarm THEN "interrupted" ELSE "error"]
        /\ IF byAlarm THEN exc_msg' = HandlerMsg(sig_handler)
                      ELSE \E m \in ErrMsgs : exc_msg' = m
    /\ rasterCalls' = IF pc = "raster"
                        THEN [rasterCalls EXCEPT ![page_num] = @ + 1]
                        ELSE rasterCalls
    /\ pc' = "ocr_fail"
    /\ UNCHANGED <<frame, page_num, text, ocr_text, page_content,
                   extracted_content, digEnd, digLen, sanVars, valVars, webVars,
                   tabEnd, sig_handler, entry>>

\* lines 213-222: install the handler and arm the alarm (replacing a pending one)
OcrArmUnix ==
    /\ pc = "ocr_arm"
    /\ platform = "Unix"
    /\ ocr_text' = "none"
    /\ sig_handler' = "ocr_handler"
    /\ alarm' = OcrTimeout
    /\ pc' = "ocr_call"
    /\ UNCHANGED <<frame, page_num, text, page_content, extracted_content,
                   hist, sanVars, valVars, webVars, tabEnd, exc_msg, entry>>

\* lines 233-240: extract_with_timeout is defined nowhere: NameError -> line 258
OcrArmWindows ==
    /\ pc = "ocr_arm"
    /\ platform = "Windows"
    /\ ocr_text' = "none"
    /\ ocrEnd' = [ocrEnd EXCEPT ![page_num] = "error"]
    /\ exc_msg' = NameErrorMsg
    /\ pc' = "ocr_fail"
    /\ UNCHANGED <<frame, page_num, alarm, text, page_content, extracted_content,
                   digEnd, digLen, rasterCalls, sanVars, valVars, webVars, tabEnd, sig_handler, entry>>

\* an alarm left pending by the digital step fires in lines 213-221: before the
\* try of line 217 it is caught at line 258, inside it at line 229
OcrArmAlarm ==
    /\ pc = "ocr_arm"
    /\ alarm # 0
    /\ alarm' = 0
    /\ ocr_text' = "none"
    /\ \E inner \in BOOLEAN :
        IF inner
          THEN /\ pc' = "ocr_check"
               /\ UNCHANGED <<ocrEnd, exc_msg>>
          ELSE /\ pc' = "ocr_fail"
               /\ ocrEnd' = [ocrEnd EXCEPT ![page_num] = "interrupted"]
               /\ exc_msg' = HandlerMsg(sig_handler)
    /\ UNCHANGED <<frame, page_num, text, page_content, extracted_content,
                   digEnd, digLen, rasterCalls, sanVars, valVars, webVars, tabEnd, sig_handler, entry>>

\* line 226: pytesseract.image_to_string returns
OcrReturns ==
    /\ pc = "ocr_call"
    /\ \E o \in OcrTexts : ocr_text' = o
    /\ pc' = "ocr_ret"
    /\ UNCHANGED <<frame, page_num, alarm, text, page_content, extracted_content,
                   hist, sanVars, valVars, webVars, extra>>

\* line 226: image_to_string raises something other than TimeoutError: line 258
\* catches it and the alarm stays armed
OcrRaises ==
    /\ pc = "ocr_call"
    /\ ocrEnd' = [ocrEnd EXCEPT ![page_num] = "error"]
    /\ \E m \in ErrMsgs : exc_msg' = m
    /\ pc' = "ocr_fail"
    /\ UNCHANGED <<frame, page_num, alarm, text, ocr_text, page_content,
                   extracted_content, digEnd, digLen, rasterCalls, sanVars, valVars, webVars,
                   tabEnd, sig_handler, entry>>

\* line 227: signal.alarm(0)
OcrCancel ==
    /\ pc = "ocr_ret"
    /\ alarm' = 0
    /\ pc' = "ocr_check"
    /\ UNCHANGED <<frame, page_num, text, ocr_text, page_content,
                   extracted_content, hist, sanVars, valVars, webVars, extra>>

\* the alarm fires inside the try of line 217: lines 229-232
OcrTimesOut ==
    /\ pc \in {"ocr_call", "ocr_ret", "ocr_hung"}
    /\ alarm # 0
    /\ alarm' = 0
    /\ ocr_text' = "none"
    /\ pc' = "ocr_check"
    /\ UNCHANGED <<frame, page_num, text, page_content, extracted_content,
                   hist, sanVars, valVars, webVars, extra>>

\* lines 246-256
OcrCheck ==
    /\ pc = "ocr_check"
    /\ page_content' = page_content \o OcrItems(ocr_text)
    /\ ocrEnd' = [ocrEnd EXCEPT ![page_num] = OcrOutcome(ocr_text)]
    /\ pc' = "ocr_end"
    /\ UNCHANGED <<frame, page_num, alarm, text, ocr_text, extracted_content,
                   digEnd, digLen, rasterCalls, sanVars, valVars, webVars, extra>>

\* lines 258-263: the handler of the OCR try; nothing guards these lines
OcrFail ==
    /\ pc = "ocr_fail"
    /\ page_content' = Append(page_content, OcrFailedMarker(exc_msg))
    /\ exc_msg' = <<>>
    /\ pc' = "ocr_end"
    /\ UNCHANGED <<frame, page_num, alarm, text, ocr_text, extracted_content,
                   hist, sanVars, valVars, webVars, tabEnd, sig_handler, entry>>

\* line 265
OcrEnd ==
    /\ pc = "ocr_end"
    /\ page_content' = Append(page_content, Tok("OCR_END", page_num))
    /\ pc' = "page_end"
    /\ UNCHANGED <<frame, page_num, alarm, text, ocr_text, extracted_content,
                   hist, sanVars, valVars, webVars, extra>>

(***************************************************************************)
(* line 267 and the loop of line 141.                                      *)
(***************************************************************************)
PageEnd ==
    /\ pc = "page_end"
    /\ extracted_content' = Append(extracted_content, page_content)
    /\ IF page_num < total_pages
         THEN page_num' = page_num + 1 /\ pc' = "page_head"
         ELSE page_num' = page_num /\ pc' = "assemble"
    /\ UNCHANGED <<frame, alarm, text, ocr_text, page_content, hist, sanVars, valVars, webVars, extra>>

(***************************************************************************)
(* lines 269-288: final assembly and the normal return.                    *)
(***************************************************************************)
Assemble ==
    /\ pc = "assemble"
    /\ result' = FinalContent(extracted_content)
    /\ outcome' = "normal"
    /\ pc' = "returned"
    /\ UNCHANGED <<platform, opened, total_pages, page_num, alarm, text, ocr_text,
                   page_content, extracted_content, hist, sanVars, valVars, webVars, extra>>

(***************************************************************************)
(* A pending alarm fires where only the try of line 136 encloses the code: *)
(* lines 142-145, 202-205, 258-265, 267, 269-288. The TimeoutError reaches *)
(* line 290.                                                               *)
(***************************************************************************)
UnguardedPcs == {"page_head", "ocr_enter", "ocr_fail", "ocr_end", "page_end", "assemble"}

AlarmUnguarded ==
    /\ pc \in UnguardedPcs
    /\ alarm # 0
    /\ alarm' = 0
    /\ exc_msg' = HandlerMsg(sig_handler)
    /\ pc' = "critical"
    /\ UNCHANGED <<frame, page_num, text, ocr_text, page_content,
                   extracted_content, hist, sanVars, valVars, webVars, tabEnd, sig_handler, entry>>

\* a pending alarm fires in lines 148-158 of the next page, before line 159
\* replaces it: line 164 or line 202 catches it, and the page goes to OCR
\* without a digital attempt
DigArmAlarm ==
    /\ pc = "dig_arm"
    /\ alarm # 0
    /\ alarm' = 0
    /\ text' = NoText
    /\ pc' = "ocr_enter"
    /\ UNCHANGED <<frame, page_num, ocr_text, page_content, extracted_content,
                   hist, sanVars, valVars, webVars, extra>>

(***************************************************************************)
(* lines 290-296: the handler of the outer try.                            *)
(***************************************************************************)
Critical ==
    /\ pc = "critical"
    /\ result' = CriticalReturn(extracted_content, exc_msg)
    /\ outcome' = IF extracted_content # <<>> THEN "partial" ELSE "failed"
    /\ exc_msg' = <<>>
    /\ pc' = "returned"
    /\ UNCHANGED <<platform, opened, total_pages, page_num, alarm, text, ocr_text,
                   page_content, extracted_content, hist, sanVars, valVars, webVars,
                   tabEnd, sig_handler, entry>>

\* after the return: an alarm still pending fires in the caller
AlarmInCaller ==
    /\ pc = "returned"
    /\ alarm # 0
    /\ alarm' = 0
    /\ pc' = "caller_interrupted"
    /\ UNCHANGED <<frame, page_num, text, ocr_text, page_content,
                   extracted_content, hist, sanVars, valVars, webVars, extra>>

Next ==
    \/ OpenOk \/ OpenFails \/ PageHead
    \/ DigArmUnix \/ DigArmWindows \/ DigArmAlarm
    \/ DigReturns \/ DigRaises \/ DigCancel \/ DigTimeout \/ DigCheck \/ Tables
    \/ Hangs
    \/ OcrEnter \/ RasterOk \/ RasterFails
    \/ OcrArmUnix \/ OcrArmWindows \/ OcrArmAlarm
    \/ OcrReturns \/ OcrRaises \/ OcrCancel \/ OcrTimesOut \/ OcrCheck \/ OcrFail \/ OcrEnd
    \/ PageEnd \/ Assemble \/ AlarmUnguarded \/ Critical \/ AlarmInCaller

Spec == Init /\ [][Next]_vars

(***************************************************************************)
(* Reading a returned string: its page-boundary markers and the part of it *)
(* that belongs to one page.                                               *)
(***************************************************************************)
RECURSIVE MarkerNumbers(_)
MarkerNumbers(toks) ==
    IF toks = <<>> THEN <<>>
    ELSE IF Head(toks).t = "PAGE" THEN <<Head(toks).n>> \o MarkerNumbers(Tail(toks))
    ELSE MarkerNumbers(Tail(toks))

HasMarker(toks, p) == \E i \in 1..Len(toks) : toks[i] = PageMarker(p)

\* the items between the marker of page p and the next marker (or the end)
PageBody(toks, p) ==
    LET i == CHOOSE k \in 1..Len(toks) : toks[k] = PageMarker(p)
        rest == SubSeq(toks, i + 1, Len(toks))
        stops == {k \in 1..Len(rest) : rest[k].t = "PAGE"}
        j == IF stops = {} THEN Len(rest) + 1
             ELSE CHOOSE k \in stops : \A m \in stops : k <= m
    IN  SubSeq(rest, 1, j - 1)

Kinds(toks) == {toks[i].t : i \in 1..Len(toks)}

ContentKinds == {"TEXT", "TABLE_ROW", "OCR_TEXT"}
BracketedMarkers == {"OCR_TIMED_OUT", "NO_READABLE", "OCR_FAILED"}
SectionKinds == {"DIGITAL_HDR", "OCR_TEXT"} \cup BracketedMarkers

Returned == pc \in {"returned", "caller_interrupted"}
Seq1N(n) == [i \in 1..n |-> i]

\* the digital attempt of page p ended without sufficient text
DigitalInsufficient(p) ==
    \/ digEnd[p] \in {"timeout", "error"}
    \/ digLen[p] \in -1..(MinTextLen - 1)

\* every strategy tried on page p ended without text
PageFailed(p) == ocrEnd[p] \in {"timeout", "error", "interrupted", "empty", "garbage"}

\* a strategy of page p ended by an exception or a timeout
StrategyFailed(p) ==
    digEnd[p] \in {"timeout", "error"} \/ ocrEnd[p] \in {"timeout", "error", "interrupted"}

\* page p yielded text: by OCR, or by the digital step (line 176 accepted it
\* and the cleaned text is not empty)
PageYielded(p) ==
    \/ ocrEnd[p] = "text"
    \/ /\ p <= Len(extracted_content)
       /\ \E i \in 1..Len(extracted_content[p]) :
            extracted_content[p][i].t = "TEXT" /\ extracted_content[p][i].n > 0

(***************************************************************************)
(* C1: a page whose digital extraction returned at least 50 characters     *)
(* (after trimming; exactly 50 included) gets no OCR attempt, and its page *)
(* result carries the digital-text section.                                *)
(***************************************************************************)
C1_SufficientTextNoOcr ==
    \A p \in Pages :
        digLen[p] >= MinTextLen =>
            /\ rasterCalls[p] = 0
            /\ p <= Len(extracted_content) =>
                   "DIGITAL_HDR" \in Kinds(extracted_content[p])

(***************************************************************************)
(* C2: a page whose digital extraction was insufficient (fewer than 50     *)
(* characters, nothing, a timeout, an error) gets exactly one OCR attempt  *)
(* (one call of page.to_image), made after the digital attempt ended.      *)
(***************************************************************************)
C2_InsufficientOcrOnce ==
    \A p \in Pages :
        /\ rasterCalls[p] <= 1
        /\ (p = page_num /\ pc \in {"dig_call", "dig_ret", "dig_check"})
               => rasterCalls[p] = 0
        /\ (Returned /\ DigitalInsufficient(p)) => rasterCalls[p] = 1

(***************************************************************************)
(* C3: when the document cannot be opened, the call fails with a           *)
(* file-access error and returns no text.                                  *)
(***************************************************************************)
C3_OpenFailureRaises ==
    (Returned /\ ~opened) => (outcome = "raised_open_error" /\ result = <<>>)

(***************************************************************************)
(* C4: when the document opens, every page is processed and no page yields *)
(* text from any strategy, the call fails with a 'no extractable content'  *)
(* error instead of returning a result.                                    *)
(***************************************************************************)
C4_NoContentRaises ==
    (/\ Returned
     /\ opened
     /\ total_pages >= 1
     /\ Len(extracted_content) = total_pages
     /\ \A p \in 1..total_pages : ~PageYielded(p))
        => (outcome = "raised_no_content" /\ result = <<>>)

(***************************************************************************)
(* C5: when at least one page yields content, the call returns normally    *)
(* and the result holds the content of every page that yielded some and a  *)
(* bracketed marker for every page that failed.                            *)
(***************************************************************************)
C5_PartialContentWithMarkers ==
    (Returned /\ \E q \in 1..total_pages : PageYielded(q)) =>
        /\ outcome \in {"normal", "partial"}
        /\ \A p \in 1..total_pages :
            /\ PageYielded(p) =>
                 /\ HasMarker(result, p)
                 /\ Kinds(PageBody(result, p)) \cap ContentKinds # {}
            /\ PageFailed(p) =>
                 /\ HasMarker(result, p)
                 /\ Kinds(PageBody(result, p)) \cap BracketedMarkers # {}

(***************************************************************************)
(* C6: every result returned for an opened document of N pages holds       *)
(* exactly the page-boundary markers 1..N, in ascending order.             *)
(***************************************************************************)
C6_ExactlyNMarkers ==
    (Returned /\ opened) => MarkerNumbers(result) = Seq1N(total_pages)

(***************************************************************************)
(* C8: a failure on page k (an exception in a strategy, a digital or OCR   *)
(* timeout) does not abort the document: every page 1..N is processed and  *)
(* its page result is in the returned text.                                *)
(***************************************************************************)
C8_FailureNeverAborts ==
    (Returned /\ \E k \in 1..total_pages : StrategyFailed(k)) =>
        /\ Len(extracted_content) = total_pages
        /\ \A p \in 1..total_pages : HasMarker(result, p)

(***************************************************************************)
(* SanSpec: sanitize a bounded string, then sanitize the output again.     *)
(***************************************************************************)
PipeIdle ==
    /\ pc = "idle"
    /\ platform = "Unix"
    /\ opened = FALSE
    /\ total_pages = 0
    /\ page_num = 0
    /\ alarm = 0
    /\ text = NoText
    /\ ocr_text = "none"
    /\ page_content = <<>>
    /\ extracted_content = <<>>
    /\ result = <<>>
    /\ outcome = "running"
    /\ digEnd = [p \in Pages |-> "none"]
    /\ digLen = [p \in Pages |-> -2]
    /\ rasterCalls = [p \in Pages |-> 0]
    /\ ocrEnd = [p \in Pages |-> "none"]
    /\ tabEnd = [p \in Pages |-> "none"]
    /\ sig_handler = "SIG_DFL"
    /\ exc_msg = <<>>
    /\ entry = [handler |-> "SIG_DFL", alarm |-> 0]

\* "Pressure" U+2019 "s rating: 5" U+00B0 "C " U+2013 " typical"
ExampleInput ==
    <<80, 114, 101, 115, 115, 117, 114, 101, 8217, 115, 32, 114, 97,
    116, 105, 110, 103, 58, 32, 53, 176, 67, 32, 8211, 32, 116, 121,
    112, 105, 99, 97, 108>>

\* the keys of the dict of lines 34-95
TableKeys == {9, 13, 160, 167, 169, 170, 174, 176, 177, 178, 179, 181,
              182, 186, 188, 189, 190, 215, 247, 937, 945, 946, 947, 948,
              956, 960, 8203, 8204, 8205, 8211, 8212, 8216, 8217, 8220,
              8221, 8224, 8225, 8226, 8230, 8232, 8233, 8240, 8242, 8243,
              8244, 8482, 8730, 8734, 8776, 8800, 8804, 8805, 65279}

\* a key of the table between two letters
KeyInput(k) == <<97, k, 97>>

\* two lines "a" with n newlines between them
Newlines(n) == [i \in 1..n |-> 10]
TwoLines(n) == <<97>> \o Newlines(n) \o <<97>>

\* the arguments of the run: the bounded strings, the example, every key of
\* the table, paragraphs, the non-strings
SanInputs == {[ty |-> "str", repr |-> x] :
                 x \in Strings \cup {ExampleInput}
                        \cup {KeyInput(k) : k \in TableKeys}
                        \cup {TwoLines(n) : n \in 2..MaxLen}}
                 \cup NonStrings

SanInit ==
    /\ PipeIdle
    /\ ValIdle
    /\ WebIdle
    /\ s_pc = "start"
    /\ \E a \in SanInputs : s_type = a.ty /\ s_in = a.repr
    /\ s_out = <<>>
    /\ s_out2 = <<>>

Sanitize ==
    /\ s_pc = "start"
    /\ s_out' = CleanValue(s_type, s_in)
    /\ s_pc' = "once"
    /\ UNCHANGED <<pipeVars, valVars, webVars, s_in, s_out2, s_type>>

SanitizeAgain ==
    /\ s_pc = "once"
    /\ s_out2' = clean_text_for_api(s_out)
    /\ s_pc' = "twice"
    /\ UNCHANGED <<pipeVars, valVars, webVars, s_in, s_out, s_type>>

SanNext == Sanitize \/ SanitizeAgain

SanSpec == SanInit /\ [][SanNext]_vars

C9_Idempotent == s_pc = "twice" => s_out2 = s_out

\* an input the sanitizer rewrote into a longer, non-empty text
C9_Witness ==
    /\ s_pc = "twice"
    /\ s_out # s_in
    /\ Len(s_out) > Len(s_in)
    /\ \E i \in 1..Len(s_out) : s_out[i] = 32

(***************************************************************************)
(* C10: every character of the sanitizer's output is tab, newline,         *)
(* carriage return or printable ASCII (0x20..0x7E).                        *)
(***************************************************************************)
SafeChars == {9, 10, 13} \cup (32..126)

C10_AsciiSafe ==
    /\ \A i \in 1..Len(s_out) : s_out[i] \in SafeChars
    /\ \A i \in 1..Len(s_out2) : s_out2[i] \in SafeChars

\* a sanitized input that held a vertical tab, DEL and a non-ASCII letter
C10_Witness ==
    /\ s_pc = "once"
    /\ s_out # <<>>
    /\ \E i, j, k \in 1..Len(s_in) : s_in[i] = 11 /\ s_in[j] = 127 /\ s_in[k] = 233

(***************************************************************************)
(* The text of the items of a returned string.                             *)
(***************************************************************************)
ItemSafe(k) == \A i \in 1..Len(k.s) : k.s[i] \in SafeChars

\* C11: every string extract_text_from_pdf returns (normal, partial, total
\* failure) holds only the characters the sanitizer allows, also when an
\* error message embedded in it has non-ASCII characters
C11_ReturnAsciiSafe ==
    Returned => \A i \in 1..Len(result) : ItemSafe(result[i])

(***************************************************************************)
(* Termination: the interpreter keeps running while a step is possible.    *)
(***************************************************************************)
LiveSpec == Spec /\ WF_vars(Next)

\* C12: every blocking call runs under a watchdog, so the extraction of a
\* finite document eventually returns even if one of the calls never
\* returns on its own
C12_ExtractionReturns == <>Returned

\* the items of page p in the returned string that report an OCR failure
OcrFailedItems(p) ==
    IF ~HasMarker(result, p) THEN {}
    ELSE LET b == PageBody(result, p)
         IN  {b[i] : i \in {j \in 1..Len(b) : b[j].t = "OCR_FAILED"}}

\* C13: when the OCR step of a page fails with an error other than a
\* timeout, the page result has the marker "[OCR FAILED: <reason>]" with an
\* ASCII reason, and the call still returns normally
C13_OcrFailureMarked ==
    \A p \in Pages :
        (Returned /\ ocrEnd[p] = "error") =>
            /\ outcome = "normal"
            /\ \E k \in OcrFailedItems(p) :
                /\ SubSeq(k.s, 1, Len(OcrFailedPrefix)) = OcrFailedPrefix
                /\ \A i \in 1..Len(k.s) : k.s[i] < 128

\* page p had sufficient digital text and its table extraction raised
TablesRaised(p) == tabEnd[p] \in {"error", "error_mid"}

\* C14: when table extraction raises on a page with sufficient digital
\* text, the digital section already appended is kept unchanged, OCR is not
\* attempted for the page, and no failure propagates
C14_TableFailureKeepsDigital ==
    \A p \in Pages :
        TablesRaised(p) =>
            /\ rasterCalls[p] = 0
            /\ ocrEnd[p] = "none"
            /\ (page_num = p /\ Len(extracted_content) < p) =>
                /\ pc = "page_end"
                /\ page_content = <<PageMarker(p)>> \o DigitalSection(text)
                                      \o TableItems(tabEnd[p])
            /\ Len(extracted_content) >= p =>
                /\ Len(extracted_content[p]) >= 3
                /\ extracted_content[p][2] = Tok("DIGITAL_HDR", 0)
                /\ extracted_content[p][3].t = "TEXT"
                /\ Kinds(extracted_content[p]) \cap
                       ({"OCR_START", "OCR_END", "OCR_TEXT"} \cup BracketedMarkers) = {}

\* a document whose two pages both lost their tables to an exception, one
\* of them after the first lines of a table were appended, returned normally
C14_Witness ==
    /\ Returned
    /\ outcome = "normal"
    /\ tabEnd[1] = "error_mid"
    /\ tabEnd[2] = "error"
    /\ "DIGITAL_HDR" \in Kinds(PageBody(result, 1))
    /\ "DIGITAL_HDR" \in Kinds(PageBody(result, 2))

\* C15: processing a page mutates no shared state: when the page is done,
\* the process-wide signal state (installed SIGALRM handler, pending alarm)
\* is what it was when the page began
C15_PageLeavesNoTrace ==
    pc = "page_end" =>
        /\ sig_handler = entry.handler
        /\ alarm = entry.alarm

\* C16: sanitization is total: every argument, also a falsy one that is not
\* a string, is coerced to its textual form and then sanitized, so the
\* output is the sanitized text of str(input)
C16_CoercedThenSanitized ==
    s_pc # "start" => s_out = clean_text_for_api(s_in)

\* "Pressure's rating: 5 degreesC - typical"
ExampleOutput ==
    <<80, 114, 101, 115, 115, 117, 114, 101, 39, 115, 32, 114, 97, 116,
    105, 110, 103, 58, 32, 53, 32, 100, 101, 103, 114, 101, 101, 115,
    67, 32, 45, 32, 116, 121, 112, 105, 99, 97, 108>>

\* C17: the sanitizer maps "Pressure" U+2019 "s rating: 5" U+00B0 "C " U+2013
\* " typical" to exactly "Pressure's rating: 5 degreesC - typical"
C17_ExampleMapping ==
    (s_pc # "start" /\ s_type = "str" /\ s_in = ExampleInput) => s_out = ExampleOutput

\* the example sanitized, its three non-ASCII characters replaced
C17_Witness ==
    /\ s_pc = "once"
    /\ s_in = ExampleInput
    /\ s_out = ExampleOutput
    /\ Len(s_out) = Len(s_in) + 7
    /\ \E i \in 1..Len(s_in) : s_in[i] = 176

(***************************************************************************)
(* The aggregated document text: the document header and the items of the  *)
(* pages in order, without the items cleaning empties.                     *)
(***************************************************************************)
Aggregated ==
    SelectSeq(<<Tok("DOC_HDR", 0)>> \o Flatten(extracted_content),
              LAMBDA k : ~IsEmptyItem(k))

KindsInOrder(toks) == [i \in 1..Len(toks) |-> toks[i].t]

ValInit ==
    /\ PipeIdle
    /\ SanIdle
    /\ WebIdle
    /\ v_pc = "start"
    /\ v_text \in Texts
    /\ v_out = FALSE

ValidateStep ==
    /\ v_pc = "start"
    /\ v_out' = Validate(v_text)
    /\ v_pc' = "done"
    /\ UNCHANGED <<pipeVars, sanVars, webVars, v_text>>

ValSpec == ValInit /\ [][ValidateStep]_vars

\* term occurs in the chunks t in some letter case
Occurs(term, t) == \E i \in 1..Len(t) : LowerChunk(t[i]) = term

\* the characters of t between its first and its last chunk that is not a space
TrimmedLen(t) ==
    LET solid == {i \in 1..Len(t) : t[i] # " "}
    IN  IF solid = {} THEN 0
        ELSE LET lo == CHOOSE i \in solid : \A j \in solid : i <= j
                 hi == CHOOSE i \in solid : \A j \in solid : j <= i
             IN  CharLen(SubSeq(t, lo, hi))

\* C19: validation returns true exactly when the text is present, has at
\* least 50 characters after trimming, and holds (case-insensitively) at
\* least 3 distinct terms of the vocabulary
C19_ValidationRule ==
    v_pc = "done" =>
        (v_out <=>
            /\ v_text.present
            /\ TrimmedLen(v_text.chunks) >= 50
            /\ \E a, b, c \in Vocabulary :
                /\ a # b /\ a # c /\ b # c
                /\ Occurs(a, v_text.chunks)
                /\ Occurs(b, v_text.chunks)
                /\ Occurs(c, v_text.chunks))

\* a text of exactly 50 characters accepted on three terms, one of them in
\* capitals
C19_Witness ==
    /\ v_pc = "done"
    /\ v_out
    /\ TrimmedLen(v_text.chunks) = 50
    /\ Occurs("pressure", v_text.chunks)
    /\ "PRESSURE" \in {v_text.chunks[i] : i \in 1..Len(v_text.chunks)}
    /\ "pressure" \notin {v_text.chunks[i] : i \in 1..Len(v_text.chunks)}

\* C20: the page result has the marker "[OCR TIMED OUT FOR THIS PAGE]"
\* exactly when the OCR call of the page timed out, and not when OCR ended
\* without timing out (as when it returned empty text)
C20_TimedOutMarkerIffTimeout ==
    \A p \in 1..Len(extracted_content) :
        ("OCR_TIMED_OUT" \in Kinds(extracted_content[p])) <=> (ocrEnd[p] = "timeout")

\* C21: whitespace normalization keeps paragraph breaks: three or more
\* newlines between two non-empty lines become exactly two, two newlines
\* stay two, and the text of the two lines is never joined
C21_ParagraphBreaksKept ==
    \A n \in 2..MaxLen :
        (s_pc # "start" /\ s_type = "str" /\ s_in = TwoLines(n)) =>
            s_out = TwoLines(2)

\* a word of the letters "a" and U+00E9, and the same word in base letters
AccentedWord(s) ==
    /\ s # <<>>
    /\ \A i \in 1..Len(s) : s[i] \in {97, 233}
    /\ \E i \in 1..Len(s) : s[i] = 233
BaseLetters(s) == [i \in 1..Len(s) |-> IF s[i] = 233 THEN 101 ELSE s[i]]

\* C22: for a precomposed accented letter the sanitizer outputs exactly its
\* base letter, with nothing in place of the combining mark, so a word
\* with accented letters stays one unbroken word
C22_AccentsBecomeBaseLetters ==
    (s_pc # "start" /\ s_type = "str" /\ AccentedWord(s_in)) =>
        s_out = BaseLetters(s_in)

\* C30: every key of the replacement table is rendered as the ASCII
\* replacement the table gives for it: the output for a text holding the
\* key is the output for the text holding its replacement
C30_TableKeysReplaced ==
    \A k \in TableKeys :
        (s_pc # "start" /\ s_type = "str" /\ s_in = KeyInput(k)) =>
            s_out = clean_text_for_api(<<97>> \o Replacement(k) \o <<97>>)

\* C23: every result returned with page content is wrapped in the document
\* header before the first page and a document footer after the last page
C23_HeaderAndFooter ==
    (Returned /\ outcome \in {"normal", "partial"} /\ extracted_content # <<>>) =>
        /\ result[1].t = "DOC_HDR"
        /\ result[Len(result)].t = "DOC_FTR"

\* the positions inside the try of line 154 or the try of line 217, after
\* signal.alarm armed the timer
GuardedPcs == {"dig_call", "dig_ret", "dig_hung", "ocr_call", "ocr_ret", "ocr_hung"}

\* C24: whenever a guarded call ends (by returning, timing out or raising)
\* its alarm is cancelled before control leaves the guarded region: no
\* alarm is armed during rasterization, the final assembly, or after the
\* return
C24_AlarmCancelledOnExit ==
    pc \notin GuardedPcs => alarm = 0

(***************************************************************************)
(* routes.py: one request to upload_files (lines 35-203), and requests to  *)
(* view_results (205-233) and download_report (235-270) by any logged-in   *)
(* user at any time. The upload creates the review with id ReviewId.       *)
(***************************************************************************)
Users == {"alice", "bob"}
ReviewId == 1
ReviewIds == {1, 2}
SpecFile == "project_spec_path"
VendorFile == "vendor_submittal_path"

\* what extract_text_from_pdf returns: document text (lines 288, 294) or the
\* failure sentinel of line 296 (the PDF could not be opened)
ExtractKinds == {"text", "sentinel"}

\* lines 89 and 92: `not text.strip()`; both kinds of return hold characters
\* that are not whitespace
Blank(kind) == kind \notin {"text", "sentinel"}

\* what analyze_compliance gives and clean_ai_output (lines 100-133) makes of
\* it: an exception, an empty report, a report
AnalysisOutcomes == {"raise", "", "report"}

RouteInit ==
    /\ PipeIdle
    /\ SanIdle
    /\ ValIdle
    /\ AnIdle
    /\ u_pc = "validate"
    /\ current_user \in Users
    /\ disk = {}
    /\ review = NoReview
    /\ texts = <<"none", "none">>
    /\ analyzed = <<>>
    /\ analysis_result = ""
    /\ propagating = FALSE
    /\ saved_both = FALSE
    /\ was_completed = FALSE
    /\ resp = NoResponse

rest == <<pipeVars, sanVars, valVars, anVars>>

\* lines 45-59: a request without two PDF files is answered at once
ValidateUpload ==
    /\ u_pc = "validate"
    /\ \E ok \in BOOLEAN : u_pc' = IF ok THEN "save" ELSE "done"
    /\ UNCHANGED <<rest, current_user, disk, review, texts, analyzed,
                   analysis_result, propagating, saved_both, was_completed, resp>>

\* lines 62-70: n of the two save calls succeed; a failure goes to line 200
SaveFiles ==
    /\ u_pc = "save"
    /\ \E n \in 0..2 :
        /\ disk' = CASE n = 0 -> {} [] n = 1 -> {SpecFile} [] n = 2 -> {SpecFile, VendorFile}
        /\ saved_both' = (n = 2)
        /\ u_pc' = IF n = 2 THEN "create" ELSE "outer_except"
    /\ UNCHANGED <<rest, current_user, review, texts, analyzed, analysis_result,
                   propagating, was_completed, resp>>

\* lines 72-79: the row is committed as 'pending', or the commit raises and
\* control goes to line 200 (the try of line 81 is not entered)
CreateReview ==
    /\ u_pc = "create"
    /\ \E ok \in BOOLEAN :
        IF ok
          THEN /\ review' = [status |-> "pending", user_id |-> current_user,
                             report_content |-> ""]
               /\ u_pc' = "extract"
          ELSE /\ review' = review
               /\ u_pc' = "outer_except"
    /\ UNCHANGED <<rest, current_user, disk, texts, analyzed, analysis_result,
                   propagating, saved_both, was_completed, resp>>

\* lines 84 and 87
ExtractTexts ==
    /\ u_pc = "extract"
    /\ \E a, b \in ExtractKinds : texts' = <<a, b>>
    /\ u_pc' = "check"
    /\ UNCHANGED <<rest, current_user, disk, review, analyzed, analysis_result,
                   propagating, saved_both, was_completed, resp>>

\* lines 89-93
CheckTexts ==
    /\ u_pc = "check"
    /\ u_pc' = IF Blank(texts[1]) \/ Blank(texts[2]) THEN "handler" ELSE "analyze"
    /\ UNCHANGED <<rest, current_user, disk, review, texts, analyzed,
                   analysis_result, propagating, saved_both, was_completed, resp>>

\* lines 97-133
Analyze ==
    /\ u_pc = "analyze"
    /\ analyzed' = texts
    /\ \E r \in AnalysisOutcomes :
        IF r = "raise"
          THEN analysis_result' = analysis_result /\ u_pc' = "handler"
          ELSE analysis_result' = r /\ u_pc' = "store"
    /\ UNCHANGED <<rest, current_user, disk, review, texts, propagating,
                   saved_both, was_completed, resp>>

\* lines 136-165: the commit stores 'completed' and the report, or raises
StoreResult ==
    /\ u_pc = "store"
    /\ \E ok \in BOOLEAN :
        IF ok
          THEN /\ review' = [review EXCEPT !.status = "completed",
                                           !.report_content = analysis_result]
               /\ was_completed' = TRUE
               /\ u_pc' = "verify"
          ELSE /\ UNCHANGED <<review, was_completed>>
               /\ u_pc' = "handler"
    /\ UNCHANGED <<rest, current_user, disk, texts, analyzed, analysis_result,
                   propagating, saved_both, resp>>

\* lines 167-180: the query of line 170 (or flash, url_for) returns or raises
VerifyAndRedirect ==
    /\ u_pc = "verify"
    /\ \E ok \in BOOLEAN : u_pc' = IF ok THEN "finally" ELSE "handler"
    /\ UNCHANGED <<rest, current_user, disk, review, texts, analyzed,
                   analysis_result, propagating, saved_both, was_completed, resp>>

\* lines 182-190: rollback, status 'error', commit; a commit that raises
\* leaves the handler with an exception (the finally runs, then line 200)
Handler ==
    /\ u_pc = "handler"
    /\ \E ok \in BOOLEAN :
        IF ok
          THEN /\ review' = [review EXCEPT !.status = "error"]
               /\ propagating' = FALSE
          ELSE /\ review' = review
               /\ propagating' = TRUE
    /\ u_pc' = "finally"
    /\ UNCHANGED <<rest, current_user, disk, texts, analyzed, analysis_result,
                   saved_both, was_completed, resp>>

\* lines 192-198: the two os.remove calls in one try; the first that raises
\* ends the block
Finally ==
    /\ u_pc = "finally"
    /\ \E r \in {"both", "first_raises", "second_raises"} :
        disk' = CASE r = "both" -> disk \ {SpecFile, VendorFile}
                  [] r = "first_raises" -> disk
                  [] r = "second_raises" -> disk \ {SpecFile}
    /\ u_pc' = IF propagating THEN "outer_except" ELSE "done"
    /\ UNCHANGED <<rest, current_user, review, texts, analyzed, analysis_result,
                   propagating, saved_both, was_completed, resp>>

\* lines 200-203
OuterExcept ==
    /\ u_pc = "outer_except"
    /\ propagating' = FALSE
    /\ u_pc' = "done"
    /\ UNCHANGED <<rest, current_user, disk, review, texts, analyzed,
                   analysis_result, saved_both, was_completed, resp>>

\* a query without the user_id filter: ComplianceReview.query.get(review_id)
LookupAnyUser(u, rid) ==
    IF review # NoReview /\ rid = ReviewId THEN review ELSE NoReview

\* lines 209 and 239: filter_by(id=review_id, user_id=current_user.id).first()
Lookup(u, rid) ==
    IF review # NoReview /\ rid = ReviewId /\ review.user_id = u
      THEN review ELSE NoReview

Response(kind, u, rid, row) ==
    [kind |-> kind, user |-> u, rid |-> rid,
     status |-> row.status, content |-> row.report_content]

\* lines 205-233
ViewResults ==
    /\ u_pc # "off"
    /\ \E u \in Users, rid \in ReviewIds :
        LET row == Lookup(u, rid)
        IN  resp' = IF row = NoReview THEN Response("404", u, rid, NoReview)
                    ELSE IF row.status \in {"error", "pending"}
                      THEN Response("redirect_index", u, rid, NoReview)
                    ELSE Response("results_page", u, rid, row)
    /\ UNCHANGED <<rest, u_pc, current_user, disk, review, texts, analyzed,
                   analysis_result, propagating, saved_both, was_completed>>

\* lines 235-270: generate_compliance_pdf returns the PDF or raises
DownloadReport ==
    /\ u_pc # "off"
    /\ \E u \in Users, rid \in ReviewIds, pdf_ok \in BOOLEAN :
        LET row == Lookup(u, rid)
        IN  resp' = IF row = NoReview THEN Response("404", u, rid, NoReview)
                    ELSE IF row.status # "completed" \/ row.report_content = ""
                      THEN Response("redirect_index", u, rid, NoReview)
                    ELSE IF pdf_ok THEN Response("report_pdf", u, rid, row)
                    ELSE Response("redirect_results", u, rid, NoReview)
    /\ UNCHANGED <<rest, u_pc, current_user, disk, review, texts, analyzed,
                   analysis_result, propagating, saved_both, was_completed>>

RouteNext ==
    \/ ValidateUpload \/ SaveFiles \/ CreateReview \/ ExtractTexts \/ CheckTexts
    \/ Analyze \/ StoreResult \/ VerifyAndRedirect \/ Handler \/ Finally
    \/ OuterExcept \/ ViewResults \/ DownloadReport

RouteSpec == RouteInit /\ [][RouteNext]_vars

\* C25: if the extraction of either document failed (the PDF could not be
\* opened), analyze_compliance is not called with that document's text, the
\* review ends with status 'error', and no failure sentinel is sent as
\* document text
C25_SentinelNotAnalyzed ==
    /\ \A i \in 1..Len(analyzed) : analyzed[i] # "sentinel"
    /\ (u_pc = "done" /\ "sentinel" \in {texts[1], texts[2]}) =>
           review.status = "error"

\* C26: a review's status only moves from 'pending' to 'completed' or to
\* 'error': once 'completed' has been committed no later step of
\* upload_files makes it 'error'
C26_CompletedIsFinal ==
    was_completed => review.status = "completed"

\* C27: after both files were saved, both are deleted by the time
\* upload_files returns, whatever happens afterwards
C27_UploadsDeleted ==
    (u_pc = "done" /\ saved_both) => disk = {}

\* C28: the content of a review goes only to the logged-in user whose id is
\* the review's user_id; any other user is answered as if the review did
\* not exist; download_report returns a report only for a 'completed'
\* review with report content
C28_OwnerOnly ==
    /\ resp.kind \in {"results_page", "report_pdf"} =>
        /\ resp.rid = ReviewId
        /\ resp.user = review.user_id
    /\ (resp.kind # "none" /\ resp.user # review.user_id) =>
        resp = Response("404", resp.user, resp.rid, NoReview)
    /\ resp.content # "" => resp.user = review.user_id
    /\ resp.kind = "report_pdf" =>
        /\ resp.status = "completed"
        /\ resp.content # ""

\* the other user asked for a completed review with a report and was told
\* it does not exist
C28_Witness ==
    /\ review.status = "completed"
    /\ review.report_content = "report"
    /\ resp.kind = "404"
    /\ resp.rid = ReviewId
    /\ resp.user \in Users \ {review.user_id}

(***************************************************************************)
(* compliance_analyzer.py: analyze_compliance (lines 207-441) up to the    *)
(* request, on strings of code points.                                     *)
(***************************************************************************)
MaxMsgLen == 2

\* a letter, a newline, an accented letter, a fraction of the table, a
\* character with no decomposition and no table entry (the euro sign)
AnAlphabet == {97, 10, 233, 189, 8364}

Str(s) == [ty |-> "str", repr |-> s]

AnInputs == {Str(x) : x \in UNION {[1..n -> AnAlphabet] : n \in 0..MaxMsgLen}}
              \cup {[ty |-> "int", repr |-> <<55>>],
                    [ty |-> "NoneType", repr |-> <<78, 111, 110, 101>>]}

\* lines 223-242: the replacements dictionary
AnReplacement(c) ==
    CASE c = 8217 -> <<39>>
      [] c = 8216 -> <<39>>
      [] c = 8220 -> <<34>>
      [] c = 8221 -> <<34>>
      [] c = 8211 -> <<45>>
      [] c = 8212 -> <<45, 45>>
      [] c = 8230 -> <<46, 46, 46>>
      [] c = 176 -> <<32, 100, 101, 103>>
      [] c = 189 -> <<49, 47, 50>>
      [] c = 188 -> <<49, 47, 52>>
      [] c = 190 -> <<51, 47, 52>>
      [] c = 8226 -> <<42>>
      [] c = 183 -> <<42>>
      [] c = 8242 -> <<39>>
      [] c = 8243 -> <<34>>
      [] c = 160 -> <<32>>
      [] c = 9 -> <<32>>
      [] c = 13 -> <<>>
      [] OTHER -> <<c>>

\* line 254: string.printable
AnPrintable(c) == c \in 32..126 \/ c \in {9, 10, 11, 12, 13}

\* line 259
AnNotControl(c) == c >= 32 \/ c \in {10, 13, 9}

\* str.isspace for the characters str.split() separates on
AnIsSpace(c) == c \in {9, 10, 11, 12, 13, 28, 29, 30, 31, 32}

RECURSIVE JoinWords(_, _, _)
JoinWords(s, started, gap) ==
    IF s = <<>> THEN <<>>
    ELSE IF AnIsSpace(Head(s)) THEN JoinWords(Tail(s), started, started)
    ELSE (IF gap THEN <<32>> ELSE <<>>) \o <<Head(s)>>
             \o JoinWords(Tail(s), TRUE, FALSE)

\* line 262: ' '.join(text.split())
JoinSplit(s) == JoinWords(s, FALSE, FALSE)

IsAscii(c) == c < 128
NotNul(c) == c # 0

\* clean_text stopping after its first pass (lines 243-244)
clean_text_replacing_only(arg) ==
    IF arg.ty # "str" THEN <<>> ELSE FlatMap(AnReplacement, arg.repr)

\* lines 218-263
clean_text(arg) ==
    IF arg.ty # "str" THEN <<>>
    ELSE LET replaced == FlatMap(AnReplacement, arg.repr)
             decomposed == FlatMap(NFKD, replaced)
             ascii == SelectSeq(decomposed, IsAscii)
             printable == SelectSeq(ascii, AnPrintable)
             no_nul == SelectSeq(printable, NotNul)
             no_control == SelectSeq(no_nul, AnNotControl)
         IN  JoinSplit(no_control)

\* lines 67-205, shortened: "You:", a blank line, "* In"; the whole prompt is
\* ASCII letters, digits, punctuation and newlines
SYSTEM_PROMPT == <<89, 111, 117, 58, 10, 10, 42, 32, 73, 110>>

\* lines 275-281: "PROJECT_SPEC:\n{spec}\n\n---\n\nSUBMITTAL:\n{vendor}"
user_message(spec, vendor) ==
    <<80, 82, 79, 74, 69, 67, 84, 95, 83, 80, 69, 67, 58, 10>> \o spec
      \o <<10, 10, 45, 45, 45, 10, 10>>
      \o <<83, 85, 66, 77, 73, 84, 84, 65, 76, 58, 10>> \o vendor

NotSurrogate(c) == c \notin 55296..57343

\* lines 292-293: s.encode('utf-8', errors='ignore').decode('utf-8')
Utf8RoundTrip(s) == SelectSeq(s, NotSurrogate)

\* lines 347-351: the list `bad` of assert_ascii is empty
AllAscii(s) == \A i \in 1..Len(s) : s[i] < 128

AnInit ==
    /\ PipeIdle
    /\ SanIdle
    /\ ValIdle
    /\ RouteIdle
    /\ a_pc = "entry"
    /\ a_in \in AnInputs \X AnInputs
    /\ a_system = <<>>
    /\ a_user = <<>>

\* lines 212-215
CheckApiKey ==
    /\ a_pc = "entry"
    /\ \E configured \in BOOLEAN :
        a_pc' = IF configured THEN "clean_arguments" ELSE "no_key"
    /\ UNCHANGED <<pipeVars, sanVars, valVars, routeVars, a_in, a_system, a_user>>

\* lines 272-281
CleanArguments ==
    /\ a_pc = "clean_arguments"
    /\ a_user' = user_message(clean_text(a_in[1]), clean_text(a_in[2]))
    /\ a_pc' = "clean_messages"
    /\ UNCHANGED <<pipeVars, sanVars, valVars, routeVars, a_in, a_system>>

\* lines 287-293
CleanMessages ==
    /\ a_pc = "clean_messages"
    /\ a_system' = Utf8RoundTrip(clean_text(Str(SYSTEM_PROMPT)))
    /\ a_user' = Utf8RoundTrip(clean_text(Str(a_user)))
    /\ a_pc' = "assert"
    /\ UNCHANGED <<pipeVars, sanVars, valVars, routeVars, a_in>>

\* lines 346-354
AssertAscii ==
    /\ a_pc = "assert"
    /\ a_pc' = IF AllAscii(a_system) /\ AllAscii(a_user) THEN "send" ELSE "assert_failed"
    /\ UNCHANGED <<pipeVars, sanVars, valVars, routeVars, a_in, a_system, a_user>>

\* lines 375-436: the request is made; the answer is returned or an
\* exception is raised
SendRequest ==
    /\ a_pc = "send"
    /\ a_pc' \in {"returned", "api_error"}
    /\ UNCHANGED <<pipeVars, sanVars, valVars, routeVars, a_in, a_system, a_user>>

AnNext ==
    \/ CheckApiKey \/ CleanArguments \/ CleanMessages \/ AssertAscii \/ SendRequest

AnSpec == AnInit /\ [][AnNext]_vars

\* C29: the ASCII assertion never fails: for every pair of input texts of
\* any type and content the system prompt and the user message of the
\* payload hold only characters below code point 128, so assert_ascii does
\* not raise and the request is sent
C29_AssertAsciiNeverFails ==
    /\ a_pc # "assert_failed"
    /\ a_pc \in {"assert", "send", "returned", "api_error"} =>
        /\ AllAscii(a_system)
        /\ AllAscii(a_user)

\* the request was made for a specification holding the euro sign and an
\* accented letter and a submittal that is not a string
C29_Witness ==
    /\ a_pc \in {"returned", "api_error"}
    /\ a_in[1] = Str(<<8364, 233>>)
    /\ a_in[2].ty = "NoneType"
    /\ a_user = <<80, 82, 79, 74, 69, 67, 84, 95, 83, 80, 69, 67, 58, 32, 101,
                  32, 45, 45, 45, 32, 83, 85, 66, 77, 73, 84, 84, 65, 76, 58>>

====
